---- MODULE Spec2Model ----
(***************************************************************************)
(* Huffman codec of Huffman_Code_Final.py: frequency analysis, heap-based  *)
(* tree construction, code assignment, bit packing and the container file  *)
(* (JSON frequency table, newline, packed bytes), with the decode path.    *)
(*                                                                         *)
(* Text is a sequence of code points, a bit string a sequence over {0,1},  *)
(* a byte string a sequence over 0..255.  A dict is a sequence of          *)
(* <<key, value>> pairs where its insertion order is observable (the       *)
(* frequency dict) and a function where it is not (the code tables).       *)
(***************************************************************************)
EXTENDS Integers, Sequences, FiniteSets, TLC

VARIABLES
    txt,          \* the input document on disk (text), or NoFile
    bin,          \* the container artifact on disk (bytes), or NoFile
    out,          \* the decompressed output on disk (text), or NoFile
    path,         \* HuffmanCode.path: "txt" or "bin"
    heap,         \* HuffmanCode.__heap
    code,         \* HuffmanCode.__code
    reversecode,  \* HuffmanCode.__reversecode
    op,           \* the last operation run
    err,          \* its outcome: "none", or the exception it raised
    freq,         \* the frequency_dict of the last invocation
    hist,         \* record of history values the properties read
    pack          \* the bit packer's stage and its strings (SpecPad)

vars == <<txt, bin, out, path, heap, code, reversecode, op, err, freq, hist,
          pack>>

(***************************************************************************)
(* Bounds of the model.                                                    *)
(***************************************************************************)
MaxLen == 5        \* longest document of Spec
MaxLenReuse == 2   \* longest document of SpecReuse
MaxCalls == 3      \* invocations on the instances of SpecReuse
MaxCount == 4      \* largest count of a frequency table of SpecTree
MaxBits == 16      \* longest encoded text of SpecPad
MaxLenDelim == 3   \* longest of the short documents of SpecDelim
MaxPad == 9        \* largest pad count in a header of SpecUnpad
MaxPayload == 9    \* most bits after the header in SpecUnpad

(***************************************************************************)
(* Characters.  10 is "\n"; 97, 98 are "a", "b"; 99, 100 are "c", "d".      *)
(***************************************************************************)
Newline == 10
Alphabet == {97, 98, Newline}
TreeAlphabet == {97, 98, 99, 100}
\* str.rstrip() with no argument strips these (ASCII whitespace).
Whitespace == {9, 10, 11, 12, 13, 28, 29, 30, 31, 32}

\* a path on disk: no file there, or a file and its content
NoFile == [exists |-> FALSE, data |-> <<>>]
File(data) == [exists |-> TRUE, data |-> data]
\* None as a node's value; a symbol is a string, a sequence of code points >= 0
NoneValue == <<-1>>

Bit == {0, 1}

RECURSIVE Pow2(_)
Pow2(n) == IF n = 0 THEN 1 ELSE 2 * Pow2(n - 1)

Min(a, b) == IF a < b THEN a ELSE b
Max(a, b) == IF a > b THEN a ELSE b

\* Python slice s[lo:hi] for 0 <= lo, 0 <= hi (already normalised).
Slice(s, lo, hi) ==
    LET h == Min(hi, Len(s))
    IN  IF lo >= h THEN <<>> ELSE SubSeq(s, lo + 1, h)

\* Python s[lo:-k] for k > 0: the stop index len - k, clamped at 0.
SliceNeg(s, lo, k) == Slice(s, lo, Max(Len(s) - k, 0))

SeqsUpTo(S, n) == UNION {[1..k -> S] : k \in 0..n}

(***************************************************************************)
(* BinaryTree: a node is [value, frequency, kids]; kids is <<>> while      *)
(* left = right = None and <<left, right>> once both are assigned.         *)
(***************************************************************************)
BinaryTree(value, frequency) ==
    [value |-> value, frequency |-> frequency, kids |-> <<>>]

\* (mutant) the comparison turned round: a max-heap
LtFlipped(a, b) == a.frequency > b.frequency

\* BinaryTree.__lt__
Lt(a, b) == a.frequency < b.frequency

(***************************************************************************)
(* heapq on a list (positions are Python's, 0-based; h[p + 1] is heap[p]). *)
(***************************************************************************)
RECURSIVE SiftDownLoop(_, _, _, _)
SiftDownLoop(h, startpos, pos, newitem) ==
    IF pos > startpos
    THEN LET parentpos == (pos - 1) \div 2
             parent == h[parentpos + 1]
         IN  IF Lt(newitem, parent)
             THEN SiftDownLoop([h EXCEPT ![pos + 1] = parent],
                               startpos, parentpos, newitem)
             ELSE [h EXCEPT ![pos + 1] = newitem]
    ELSE [h EXCEPT ![pos + 1] = newitem]

\* heapq._siftdown(heap, startpos, pos)
SiftDown(h, startpos, pos) == SiftDownLoop(h, startpos, pos, h[pos + 1])

RECURSIVE SiftUpLoop(_, _, _, _, _)
SiftUpLoop(h, startpos, pos, childpos, newitem) ==
    IF childpos < Len(h)
    THEN LET rightpos == childpos + 1
             c == IF rightpos < Len(h) /\ ~Lt(h[childpos + 1], h[rightpos + 1])
                  THEN rightpos ELSE childpos
         IN  SiftUpLoop([h EXCEPT ![pos + 1] = h[c + 1]],
                        startpos, c, 2 * c + 1, newitem)
    ELSE SiftDown([h EXCEPT ![pos + 1] = newitem], startpos, pos)

\* heapq._siftup(heap, pos)
SiftUp(h, pos) == SiftUpLoop(h, pos, pos, 2 * pos + 1, h[pos + 1])

RECURSIVE HeapifyLoop(_, _)
HeapifyLoop(h, i) ==
    IF i < 0 THEN h ELSE HeapifyLoop(SiftUp(h, i), i - 1)

\* heapq.heapify(x): for i in reversed(range(n // 2)): _siftup(x, i)
Heapify(h) == HeapifyLoop(h, (Len(h) \div 2) - 1)

\* heapq.heappop(heap): [item |-> the smallest, heap |-> the rest]; Len(h) > 0
HeapPop(h) ==
    LET lastelt == h[Len(h)]
        rest == SubSeq(h, 1, Len(h) - 1)
    IN  IF rest # <<>>
        THEN [item |-> rest[1], heap |-> SiftUp([rest EXCEPT ![1] = lastelt], 0)]
        ELSE [item |-> lastelt, heap |-> rest]

\* heapq.heappush(heap, item)
HeapPush(h, item) == SiftDown(Append(h, item), 0, Len(h))

(***************************************************************************)
(* HuffmanCode: frequency table, tree, code tables.                        *)
(***************************************************************************)
\* dict[key] = value on an insertion-ordered dict
RECURSIVE DictIndex(_, _, _)
DictIndex(d, key, i) ==
    IF i > Len(d) THEN 0
    ELSE IF d[i][1] = key THEN i ELSE DictIndex(d, key, i + 1)

DictSet(d, key, value) ==
    LET i == DictIndex(d, key, 1)
    IN  IF i = 0 THEN Append(d, <<key, value>>)
        ELSE [d EXCEPT ![i] = <<key, value>>]

DictKeys(d) == {d[i][1] : i \in 1..Len(d)}

DictGet(d, key) == d[DictIndex(d, key, 1)][2]

\* Counter(text): one entry per symbol in order of first occurrence; a symbol
\* is the one-character string <<text[i]>>
RECURSIVE CounterLoop(_, _, _)
CounterLoop(text, i, d) ==
    IF i > Len(text) THEN d
    ELSE LET c == <<text[i]>>
             n == IF c \in DictKeys(d) THEN DictGet(d, c) ELSE 0
         IN  CounterLoop(text, i + 1, DictSet(d, c, n + 1))

\* (mutant) dict.fromkeys(text, 1): every symbol counted once
RECURSIVE FromKeysLoop(_, _, _)
FromKeysLoop(text, i, d) ==
    IF i > Len(text) THEN d
    ELSE FromKeysLoop(text, i + 1, DictSet(d, <<text[i]>>, 1))

frequency_from_text_fromkeys(text) == FromKeysLoop(text, 1, <<>>)

\* __frequency_from_text
frequency_from_text(text) == CounterLoop(text, 1, <<>>)

\* __build_heap: a fresh list of leaves in dict order, then heapify
build_heap(frequency_dict) ==
    Heapify([i \in 1..Len(frequency_dict) |->
        BinaryTree(frequency_dict[i][1], frequency_dict[i][2])])

\* (mutant) new_node.left, new_node.right = node2, node1
MergeOnce_swapped(h) ==
    LET p1 == HeapPop(h)
        p2 == HeapPop(p1.heap)
        new_node == [value |-> NoneValue,
                     frequency |-> p1.item.frequency + p2.item.frequency,
                     kids |-> <<p2.item, p1.item>>]
    IN  HeapPush(p2.heap, new_node)

\* one iteration of the loop of __build_binary_tree; Len(h) > 1
MergeOnce(h) ==
    LET p1 == HeapPop(h)
        p2 == HeapPop(p1.heap)
        new_node == [value |-> NoneValue,
                     frequency |-> p1.item.frequency + p2.item.frequency,
                     kids |-> <<p1.item, p2.item>>]
    IN  HeapPush(p2.heap, new_node)

RECURSIVE build_binary_tree(_)
build_binary_tree(h) ==
    IF Len(h) > 1 THEN build_binary_tree(MergeOnce(h)) ELSE h

\* dict[key] = value on the code tables (order not observable)
Put(table, key, value) ==
    [k \in DOMAIN table \cup {key} |-> IF k = key THEN value ELSE table[k]]

EmptyTable == <<>>

\* (mutant) the left child reached with curr_bits, the '0' not appended
RECURSIVE build_tree_code_helper_left_bare(_, _, _)
build_tree_code_helper_left_bare(root, curr_bits, t) ==
    IF root.value # NoneValue
    THEN LET bits == IF curr_bits = <<>> THEN <<0>> ELSE curr_bits
         IN  [t EXCEPT !.code = Put(t.code, root.value, bits),
                       !.reversecode = Put(t.reversecode, bits, root.value)]
    ELSE IF root.kids = <<>> THEN t
    ELSE build_tree_code_helper_left_bare(root.kids[2], Append(curr_bits, 1),
            build_tree_code_helper_left_bare(root.kids[1], curr_bits, t))

\* (mutant) setdefault in place of assignment: an entry already in a table
\* is kept
PutDefault(table, key, value) ==
    IF key \in DOMAIN table THEN table ELSE Put(table, key, value)

RECURSIVE build_tree_code_helper_setdefault(_, _, _)
build_tree_code_helper_setdefault(root, curr_bits, t) ==
    IF root.value # NoneValue
    THEN LET bits == IF curr_bits = <<>> THEN <<0>> ELSE curr_bits
         IN  [t EXCEPT !.code = PutDefault(t.code, root.value, bits),
                       !.reversecode = PutDefault(t.reversecode, bits, root.value)]
    ELSE IF root.kids = <<>> THEN t
    ELSE build_tree_code_helper_setdefault(root.kids[2], Append(curr_bits, 1),
            build_tree_code_helper_setdefault(root.kids[1], Append(curr_bits, 0), t))

\* __build_tree_code_helper(root, curr_bits) on a record t with the tables
\* code and reversecode
RECURSIVE build_tree_code_helper(_, _, _)
build_tree_code_helper(root, curr_bits, t) ==
    IF root.value # NoneValue
    THEN LET bits == IF curr_bits = <<>> THEN <<0>> ELSE curr_bits
         IN  [t EXCEPT !.code = Put(t.code, root.value, bits),
                       !.reversecode = Put(t.reversecode, bits, root.value)]
    ELSE IF root.kids = <<>> THEN t
    ELSE build_tree_code_helper(root.kids[2], Append(curr_bits, 1),
            build_tree_code_helper(root.kids[1], Append(curr_bits, 0), t))

\* __build_tree_code from line 76 on: p is what heappop returned
build_tree_code_root(p, s) ==
    build_tree_code_helper(p.item, <<>>,
        [err |-> "none", heap |-> p.heap,
         code |-> s.code, reversecode |-> s.reversecode])

\* __build_tree_code on the instance state s = [heap, code, reversecode]
build_tree_code(s) ==
    IF s.heap = <<>>
    THEN [err |-> "ValueError: Huffman heap is empty", heap |-> s.heap,
          code |-> s.code, reversecode |-> s.reversecode]
    ELSE build_tree_code_root(HeapPop(s.heap), s)

\* __build_encoded_text: ''.join(self.__code[char] for char in text)
RECURSIVE build_encoded_text(_, _)
build_encoded_text(text, table) ==
    IF text = <<>> THEN <<>>
    ELSE table[<<Head(text)>>] \o build_encoded_text(Tail(text), table)

(***************************************************************************)
(* Bit packing.                                                            *)
(***************************************************************************)
\* f"{v:08b}": binary digits, most significant first, at least 8 of them
RECURSIVE BinDigits(_)
BinDigits(v) == IF v < 2 THEN <<v>> ELSE Append(BinDigits(v \div 2), v % 2)

Format08b(v) ==
    LET d == BinDigits(v)
    IN  [i \in 1..(8 - Min(8, Len(d))) |-> 0] \o d

\* int(s, 2) for a non-empty bit string
RECURSIVE IntBase2(_)
IntBase2(s) ==
    IF s = <<>> THEN 0
    ELSE 2 * IntBase2(SubSeq(s, 1, Len(s) - 1)) + s[Len(s)]

Zeros(n) == [i \in 1..n |-> 0]

\* (mutant) the outer % 8 left out: a pad of 8 for a whole number of bytes
build_padded_text_nomod(encoded_text) ==
    LET padding_value == 8 - (Len(encoded_text) % 8)
    IN  Format08b(padding_value) \o encoded_text \o Zeros(padding_value)

\* __build_padded_text
build_padded_text(encoded_text) ==
    LET padding_value == (8 - (Len(encoded_text) % 8)) % 8
        padded_info == Format08b(padding_value)
    IN  padded_info \o encoded_text \o Zeros(padding_value)

\* __build_byte_array: one byte per chunk padded_text[i:i+8]
build_byte_array(padded_text) ==
    [k \in 1..((Len(padded_text) + 7) \div 8) |->
        IntBase2(Slice(padded_text, 8 * (k - 1), 8 * k))]

\* ''.join(format(byte, '08b') for byte in data)
RECURSIVE BitString(_)
BitString(data) ==
    IF data = <<>> THEN <<>>
    ELSE Format08b(Head(data)) \o BitString(Tail(data))

\* __remove_padding
remove_padding(text) ==
    LET padding_value == IntBase2(Slice(text, 0, 8))
    IN  IF padding_value = 0 THEN Slice(text, 8, Len(text))
        ELSE SliceNeg(text, 8, padding_value)

\* the stop index of the Python slice s[:n] on a string of length len: a
\* negative n counts from the end, and -0 is 0
SliceStop(n, len) == IF n < 0 THEN Max(len + n, 0) ELSE Min(n, len)

\* final_project.py, __remove_padding
remove_padding_final_project(text) ==
    LET padding_value == IntBase2(Slice(text, 0, 8))
    IN  IF padding_value # 0 THEN SliceNeg(text, 8, padding_value)
        ELSE Slice(text, 8, Len(text))

\* Huffman_Code.py, __Remove_Padding: text = text[8:]; text = text[:-1*padding_value]
Remove_Padding(text) ==
    LET padding_value == IntBase2(Slice(text, 0, 8))
        rest == Slice(text, 8, Len(text))
    IN  Slice(rest, 0, SliceStop(-1 * padding_value, Len(rest)))

\* __decode_text: [text |-> ''.join(decoded_text), rest |-> current_bits at the end]
RECURSIVE DecodeLoop(_, _, _, _, _)
DecodeLoop(text, i, table, decoded_text, current_bits) ==
    IF i > Len(text) THEN [text |-> decoded_text, rest |-> current_bits]
    ELSE LET b == Append(current_bits, text[i])
         IN  IF b \in DOMAIN table
             THEN DecodeLoop(text, i + 1, table, decoded_text \o table[b], <<>>)
             ELSE DecodeLoop(text, i + 1, table, decoded_text, b)

decode_text(text, table) == DecodeLoop(text, 1, table, <<>>, <<>>).text

(***************************************************************************)
(* The container's header: json.dumps of the frequency dict, and           *)
(* json.loads of the bytes before the first newline.  Bytes are ASCII      *)
(* codes: 34 '"', 44 ',', 45 '-', 48..57 digits, 58 ':', 91 '[', 92 '\',   *)
(* 93 ']', 123 '{', 125 '}'.                                               *)
(***************************************************************************)
HexDigit(n) == IF n < 10 THEN 48 + n ELSE 87 + n

\* (mutant) no escaping: every character written as it is
EscapeRaw(c) == <<c>>

\* json's escape of one character of a string (ensure_ascii; ASCII input)
Escape(c) ==
    CASE c = 34 -> <<92, 34>>
      [] c = 92 -> <<92, 92>>
      [] c = 10 -> <<92, 110>>
      [] c = 13 -> <<92, 114>>
      [] c = 9  -> <<92, 116>>
      [] c = 8  -> <<92, 98>>
      [] c = 12 -> <<92, 102>>
      [] c < 32 /\ c \notin {8, 9, 10, 12, 13} ->
            <<92, 117, 48, 48, HexDigit(c \div 16), HexDigit(c % 16)>>
      [] OTHER -> <<c>>

RECURSIVE EscapeString(_)
EscapeString(str) ==
    IF str = <<>> THEN <<>> ELSE Escape(Head(str)) \o EscapeString(Tail(str))

\* str(n) for an integer n
RECURSIVE Decimal(_)
Decimal(n) ==
    IF n < 0 THEN <<45>> \o Decimal(-n)
    ELSE IF n < 10 THEN <<48 + n>>
    ELSE Append(Decimal(n \div 10), 48 + (n % 10))

RECURSIVE DumpItems(_, _)
DumpItems(d, i) ==
    IF i > Len(d) THEN <<>>
    ELSE (IF i > 1 THEN <<44, 32>> ELSE <<>>)
         \o <<34>> \o EscapeString(d[i][1]) \o <<34, 58, 32>> \o Decimal(d[i][2])
         \o DumpItems(d, i + 1)

\* json.dumps(frequency_dict).encode("utf-8")
json_dumps(d) == <<123>> \o DumpItems(d, 1) \o <<125>>

JsonWs == {32, 9, 10, 13}
Digits == 48..57
ParseError == [kind |-> "error"]

RECURSIVE SkipWs(_, _)
SkipWs(b, i) == IF i <= Len(b) /\ b[i] \in JsonWs THEN SkipWs(b, i + 1) ELSE i

HexValue(c) ==
    IF c \in 48..57 THEN c - 48
    ELSE IF c \in 97..102 THEN c - 87
    ELSE IF c \in 65..70 THEN c - 55
    ELSE -1

\* the characters of a string from position i, after its opening quote:
\* [ok, val, next]; next is the position after the closing quote
RECURSIVE ParseChars(_, _, _)
ParseChars(b, i, acc) ==
    IF i > Len(b) THEN [ok |-> FALSE]
    ELSE IF b[i] = 34 THEN [ok |-> TRUE, val |-> acc, next |-> i + 1]
    ELSE IF b[i] < 32 THEN [ok |-> FALSE]
    ELSE IF b[i] # 92 THEN ParseChars(b, i + 1, Append(acc, b[i]))
    ELSE IF i + 1 > Len(b) THEN [ok |-> FALSE]
    ELSE LET e == b[i + 1]
         IN  CASE e = 34  -> ParseChars(b, i + 2, Append(acc, 34))
               [] e = 92  -> ParseChars(b, i + 2, Append(acc, 92))
               [] e = 47  -> ParseChars(b, i + 2, Append(acc, 47))
               [] e = 98  -> ParseChars(b, i + 2, Append(acc, 8))
               [] e = 102 -> ParseChars(b, i + 2, Append(acc, 12))
               [] e = 110 -> ParseChars(b, i + 2, Append(acc, 10))
               [] e = 114 -> ParseChars(b, i + 2, Append(acc, 13))
               [] e = 116 -> ParseChars(b, i + 2, Append(acc, 9))
               [] e = 117 ->
                    IF i + 5 > Len(b)
                       \/ \E k \in 2..5 : HexValue(b[i + k]) < 0
                    THEN [ok |-> FALSE]
                    ELSE ParseChars(b, i + 6, Append(acc,
                            4096 * HexValue(b[i + 2]) + 256 * HexValue(b[i + 3])
                            + 16 * HexValue(b[i + 4]) + HexValue(b[i + 5])))
               [] OTHER -> [ok |-> FALSE]

RECURSIVE ParseDigits(_, _, _)
ParseDigits(b, i, acc) ==
    IF i <= Len(b) /\ b[i] \in Digits
    THEN ParseDigits(b, i + 1, 10 * acc + (b[i] - 48))
    ELSE [val |-> acc, next |-> i]

\* an integer literal at position i: [ok, val, next]
ParseInt(b, i) ==
    LET neg == i <= Len(b) /\ b[i] = 45
        j == IF neg THEN i + 1 ELSE i
    IN  IF j > Len(b) \/ b[j] \notin Digits THEN [ok |-> FALSE]
        ELSE IF b[j] = 48 /\ j + 1 <= Len(b) /\ b[j + 1] \in Digits
             THEN [ok |-> FALSE]
        ELSE LET r == ParseDigits(b, j, 0)
             IN  IF r.next <= Len(b) /\ b[r.next] \in {46, 69, 101}
                 THEN [ok |-> FALSE]
                 ELSE [ok |-> TRUE, val |-> IF neg THEN -r.val ELSE r.val,
                       next |-> r.next]

\* the members of an object from position i (after "{" or ","):
\* [ok, val, next]; a repeated key keeps its place and takes the later value
RECURSIVE ParseMembers(_, _, _)
ParseMembers(b, i, d) ==
    LET k == SkipWs(b, i)
    IN  IF k > Len(b) \/ b[k] # 34 THEN [ok |-> FALSE]
        ELSE LET key == ParseChars(b, k + 1, <<>>)
             IN  IF ~key.ok THEN [ok |-> FALSE]
                 ELSE LET c == SkipWs(b, key.next)
                      IN  IF c > Len(b) \/ b[c] # 58 THEN [ok |-> FALSE]
                          ELSE LET v == ParseInt(b, SkipWs(b, c + 1))
                               IN  IF ~v.ok THEN [ok |-> FALSE]
                                   ELSE LET e == SkipWs(b, v.next)
                                            d2 == DictSet(d, key.val, v.val)
                                        IN  IF e > Len(b) THEN [ok |-> FALSE]
                                            ELSE IF b[e] = 125
                                            THEN [ok |-> TRUE, val |-> d2, next |-> e + 1]
                                            ELSE IF b[e] = 44
                                            THEN ParseMembers(b, e + 1, d2)
                                            ELSE [ok |-> FALSE]

\* json.loads(data.decode("utf-8")) on the JSON this model covers: an object of
\* string keys and integer values, the empty array, an integer.
\* [kind |-> "dict", val |-> d], [kind |-> "list"], [kind |-> "int"] or ParseError
json_loads(b) ==
    LET i == SkipWs(b, 1)
        Finish(kind, val, next) ==
            IF SkipWs(b, next) > Len(b) THEN [kind |-> kind, val |-> val]
            ELSE ParseError
    IN  IF \E k \in 1..Len(b) : b[k] > 127 THEN ParseError
        ELSE IF i > Len(b) THEN ParseError
        ELSE IF b[i] = 123
        THEN LET j == SkipWs(b, i + 1)
             IN  IF j <= Len(b) /\ b[j] = 125 THEN Finish("dict", <<>>, j + 1)
                 ELSE LET m == ParseMembers(b, i + 1, <<>>)
                      IN  IF m.ok THEN Finish("dict", m.val, m.next) ELSE ParseError
        ELSE IF b[i] = 91
        THEN LET j == SkipWs(b, i + 1)
             IN  IF j <= Len(b) /\ b[j] = 93 THEN Finish("list", <<>>, j + 1)
                 ELSE ParseError
        ELSE LET n == ParseInt(b, i)
             IN  IF n.ok THEN Finish("int", n.val, n.next) ELSE ParseError

\* position of the first newline byte of data, or Len(data) + 1
RECURSIVE FirstNewline(_, _)
FirstNewline(data, i) ==
    IF i > Len(data) \/ data[i] = Newline THEN i ELSE FirstNewline(data, i + 1)

\* the read(1) loop of decompress: the bytes before the first newline (or all)
ReadHeader(data) == SubSeq(data, 1, FirstNewline(data, 1) - 1)

\* file.readline(); file.read(): the bytes after the first newline
ReadPayload(data) == SubSeq(data, FirstNewline(data, 1) + 1, Len(data))

\* text.rstrip()
RECURSIVE rstrip(_)
rstrip(text) ==
    IF text # <<>> /\ text[Len(text)] \in Whitespace
    THEN rstrip(SubSeq(text, 1, Len(text) - 1))
    ELSE text

(***************************************************************************)
(* compress and decompress on the instance state s = [heap, code,          *)
(* reversecode].  The result carries the fields as the call leaves them    *)
(* (an exception keeps the assignments made before it), the exception      *)
(* raised or "none", whether the output file was opened for writing, and   *)
(* what was written.                                                       *)
(***************************************************************************)
Raise(e, s, frequency_dict) ==
    [err |-> e, heap |-> s.heap, code |-> s.code, reversecode |-> s.reversecode,
     freq |-> frequency_dict, built |-> FALSE, wrote |-> FALSE,
     data |-> <<>>, rest |-> <<>>]

\* compress from line 117 on, the tables built: t is what __build_tree_code left
compress_write(text, frequency_dict, t) ==
    IF t.err # "none" THEN Raise(t.err, t, frequency_dict)
    ELSE [err |-> "none", heap |-> t.heap, code |-> t.code,
          reversecode |-> t.reversecode, freq |-> frequency_dict,
          built |-> TRUE, wrote |-> TRUE,
          data |-> json_dumps(frequency_dict) \o <<Newline>>
                   \o build_byte_array(build_padded_text(
                          build_encoded_text(text, t.code))),
          rest |-> <<>>]

\* compress from line 113 on, with its frequency_dict
compress_build(text, frequency_dict, s) ==
    compress_write(text, frequency_dict,
        build_tree_code([heap |-> build_binary_tree(build_heap(frequency_dict)),
                         code |-> s.code, reversecode |-> s.reversecode]))

\* compress from line 109 on, with the text read and stripped
compress_text(text, s) ==
    IF text = <<>> THEN Raise("ValueError: Input file is empty", s, <<>>)
    ELSE compress_build(text, frequency_from_text(text), s)

\* (mutant) the output file opened before the text is checked
compress_open_first(text_file, s) ==
    IF rstrip(text_file) = <<>>
    THEN [Raise("ValueError: Input file is empty", s, <<>>) EXCEPT !.wrote = TRUE]
    ELSE compress_text(rstrip(text_file), s)
\* HuffmanCode.compress on the text of the file at self.path
compress(text_file, s) == compress_text(rstrip(text_file), s)

\* decompress from line 177 on: d is what the decode loop left
decompress_write(frequency_dict, t, d) ==
    [err |-> "none", heap |-> t.heap, code |-> t.code,
     reversecode |-> t.reversecode, freq |-> frequency_dict,
     built |-> TRUE, wrote |-> TRUE, data |-> d.text, rest |-> d.rest]

\* decompress from line 170 on, the tables built
decompress_decode(bit_string, frequency_dict, t) ==
    IF t.err # "none" THEN Raise(t.err, t, frequency_dict)
    ELSE IF bit_string = <<>>
    THEN [Raise("ValueError: No encoded data found in file", t, frequency_dict)
             EXCEPT !.built = TRUE]
    ELSE decompress_write(frequency_dict, t,
            DecodeLoop(remove_padding(bit_string), 1, t.reversecode, <<>>, <<>>))

\* the pairs of a dict in the reverse of their insertion order
RECURSIVE Reversed(_)
Reversed(d) ==
    IF d = <<>> THEN <<>> ELSE Append(Reversed(Tail(d)), Head(d))

\* (mutant) the heap built from the parsed dict iterated in reverse
decompress_build_reversed(data, parsed, s) ==
    IF parsed.kind = "error"
    THEN Raise("ValueError: Error parsing frequency dictionary", s, <<>>)
    ELSE IF parsed.kind # "dict"
    THEN Raise("AttributeError: no attribute items",
               [s EXCEPT !.heap = <<>>], <<>>)
    ELSE decompress_decode(BitString(ReadPayload(data)), parsed.val,
            build_tree_code([heap |-> build_binary_tree(build_heap(Reversed(parsed.val))),
                             code |-> s.code, reversecode |-> s.reversecode]))

\* decompress from line 165 on, with what json.loads returned
decompress_build(data, parsed, s) ==
    IF parsed.kind = "error"
    THEN Raise("ValueError: Error parsing frequency dictionary", s, <<>>)
    ELSE IF parsed.kind # "dict"
    THEN Raise("AttributeError: no attribute items",
               [s EXCEPT !.heap = <<>>], <<>>)
    ELSE decompress_decode(BitString(ReadPayload(data)), parsed.val,
            build_tree_code([heap |-> build_binary_tree(build_heap(parsed.val)),
                             code |-> s.code, reversecode |-> s.reversecode]))

\* HuffmanCode.decompress on the bytes of the file at self.path
decompress(data, s) == decompress_build(data, json_loads(ReadHeader(data)), s)

(***************************************************************************)
(* The state machine: one HuffmanCode instance, the three files of one     *)
(* stem (stem.txt, stem.bin, stem_decompressed.txt) and their environment. *)
(***************************************************************************)
Self == [heap |-> heap, code |-> code, reversecode |-> reversecode]

Docs == SeqsUpTo(Alphabet, MaxLen)
DocsReuse == SeqsUpTo(Alphabet, MaxLenReuse)

\* Artifacts a caller may hand to decompress that compress did not write.
\* Headers: not JSON; JSON but no object; an empty object; counts that are
\* not positive; a header with no newline after it; and the valid table
\* {"a": 1, "b": 1, "\n": 1} before a payload whose only bit, 1, is no code.
ForeignArtifacts ==
    { <<120, 121, 122, Newline, 0, 0>>,
      <<91, 93, Newline, 0, 0>>,
      <<123, 125, Newline, 0, 0>>,
      <<123, 34, 97, 34, 58, 32, 48, 125, Newline, 0, 0>>,
      <<123, 34, 97, 34, 58, 32, 45, 49, 44, 32, 34, 98, 34, 58, 32, 49, 125,
        Newline, 6, 64>>,
      <<123, 34, 97, 34, 58, 32, 49>>,
      <<123, 34, 97, 34, 58, 32, 49, 125, Newline>>,
      <<123, 34, 97, 34, 58, 32, 49, 44, 32, 34, 98, 34, 58, 32, 49, 44, 32,
        34, 92, 110, 34, 58, 32, 49, 125, Newline, 7, 128>> }

NoPack == [stage |-> "none", encoded_text |-> <<>>, padded_text |-> <<>>,
           bytes |-> <<>>]

InitInstance ==
    /\ path = "txt"
    /\ heap = <<>>
    /\ code = EmptyTable
    /\ reversecode = EmptyTable
    /\ op = "init"
    /\ err = "none"
    /\ freq = <<>>
    /\ pack = NoPack

\* the tables of an instance that has built none
NoTables == [code |-> EmptyTable, reversecode |-> EmptyTable]

InitHist(alt) ==
    [src |-> NoFile, used |-> FALSE, fresh |-> FALSE, built |-> FALSE,
     wrote |-> FALSE, rest |-> <<>>, produced |-> {}, calls |-> 0, alt |-> alt,
     iters |-> 0, enc |-> NoTables, encfresh |-> FALSE]

Init ==
    /\ txt \in {File(d) : d \in Docs}
    /\ bin = NoFile
    /\ out = NoFile
    /\ InitInstance
    /\ hist = InitHist(txt)

\* HuffmanCode(path): __init__
NewInstance(p) ==
    /\ path' = p
    /\ heap' = <<>>
    /\ code' = EmptyTable
    /\ reversecode' = EmptyTable
    /\ op' = "new"
    /\ err' = "none"
    /\ hist' = [hist EXCEPT !.used = FALSE, !.fresh = FALSE, !.built = FALSE,
                            !.wrote = FALSE, !.rest = <<>>]
    /\ UNCHANGED <<txt, bin, out, freq, pack>>

\* instance.path = p between two calls
SetPath(p) ==
    /\ path # p
    /\ path' = p
    /\ op' = "setpath"
    /\ err' = "none"
    /\ hist' = [hist EXCEPT !.fresh = FALSE, !.built = FALSE, !.wrote = FALSE,
                            !.rest = <<>>]
    /\ UNCHANGED <<txt, bin, out, heap, code, reversecode, freq, pack>>

\* the fields a call leaves, r being what it returned or raised
Returned(r) ==
    /\ heap' = r.heap
    /\ code' = r.code
    /\ reversecode' = r.reversecode
    /\ freq' = r.freq
    /\ err' = r.err

CompressDone(r, n) ==
    /\ Returned(r)
    /\ bin' = IF r.wrote THEN File(r.data) ELSE bin
    /\ hist' = [hist EXCEPT
           !.src = IF r.wrote THEN txt ELSE @,
           !.enc = IF r.wrote
                   THEN [code |-> r.code, reversecode |-> r.reversecode] ELSE @,
           !.encfresh = IF r.wrote THEN ~hist.used ELSE @,
           !.fresh = ~hist.used, !.used = TRUE, !.built = r.built,
           !.wrote = r.wrote, !.rest = <<>>,
           !.produced = IF r.wrote
                        THEN @ \cup {<<txt.data, r.data, hist.calls>>} ELSE @,
           !.calls = @ + n]

\* instance.compress(), self.path naming the document
Compress(n) ==
    /\ path = "txt"
    /\ CompressDone(compress(txt.data, Self), n)
    /\ op' = "compress"
    /\ UNCHANGED <<txt, out, path, pack>>

DecompressDone(r, n) ==
    /\ Returned(r)
    /\ out' = IF r.wrote THEN File(r.data) ELSE out
    /\ hist' = [hist EXCEPT
           !.fresh = ~hist.used, !.used = TRUE, !.built = r.built,
           !.wrote = r.wrote, !.rest = r.rest, !.calls = @ + n]

\* instance.decompress(), self.path naming an artifact that exists
Decompress(n) ==
    /\ path = "bin"
    /\ bin.exists
    /\ DecompressDone(decompress(bin.data, Self), n)
    /\ op' = "decompress"
    /\ UNCHANGED <<txt, bin, path, pack>>

\* the environment puts an artifact of its own at stem.bin, where none is yet
Foreign ==
    /\ ~bin.exists
    /\ \E a \in ForeignArtifacts : bin' = File(a)
    /\ hist' = [hist EXCEPT !.src = NoFile, !.fresh = FALSE, !.built = FALSE,
                            !.wrote = FALSE, !.rest = <<>>,
                            !.enc = NoTables, !.encfresh = FALSE]
    /\ op' = "foreign"
    /\ err' = "none"
    /\ UNCHANGED <<txt, out, path, heap, code, reversecode, freq, pack>>

\* the environment cuts the last byte off the artifact
Truncate ==
    /\ bin.exists
    /\ bin.data # <<>>
    /\ hist.src.exists
    /\ bin' = File(SubSeq(bin.data, 1, Len(bin.data) - 1))
    /\ hist' = [hist EXCEPT !.src = NoFile, !.fresh = FALSE, !.built = FALSE,
                            !.wrote = FALSE, !.rest = <<>>,
                            !.enc = NoTables, !.encfresh = FALSE]
    /\ op' = "truncate"
    /\ err' = "none"
    /\ UNCHANGED <<txt, out, path, heap, code, reversecode, freq, pack>>

Next ==
    \/ \E p \in {"txt", "bin"} : NewInstance(p)
    \/ \E p \in {"txt", "bin"} : SetPath(p)
    \/ Compress(0)
    \/ Decompress(0)
    \/ Foreign
    \/ Truncate

Spec == Init /\ [][Next]_vars

(***************************************************************************)
(* One instance reused over two documents: the environment rewrites        *)
(* stem.txt between calls, and the instance's path is reassigned.          *)
(***************************************************************************)
InitReuse ==
    /\ txt \in {File(d) : d \in DocsReuse}
    /\ bin = NoFile
    /\ out = NoFile
    /\ InitInstance
    /\ hist \in {InitHist(File(d)) : d \in DocsReuse}

\* the environment replaces the document by the other one
SwitchDoc ==
    /\ txt # hist.alt
    /\ txt' = hist.alt
    /\ hist' = [hist EXCEPT !.alt = txt, !.fresh = FALSE, !.built = FALSE,
                            !.wrote = FALSE, !.rest = <<>>]
    /\ op' = "write"
    /\ err' = "none"
    /\ UNCHANGED <<bin, out, path, heap, code, reversecode, freq, pack>>

NextReuse ==
    \/ \E p \in {"txt", "bin"} : NewInstance(p)
    \/ \E p \in {"txt", "bin"} : SetPath(p)
    \/ (hist.calls < MaxCalls /\ Compress(1))
    \/ (hist.calls < MaxCalls /\ Decompress(1))
    \/ SwitchDoc

SpecReuse == InitReuse /\ [][NextReuse]_vars

(***************************************************************************)
(* The tree builder and the code table generator step by step, on every    *)
(* frequency table over TreeAlphabet with counts up to MaxCount (in every  *)
(* insertion order: the order decides the ties).                           *)
(***************************************************************************)
FreqTables ==
    { f \in SeqsUpTo({<<c>> : c \in TreeAlphabet} \X (1..MaxCount),
                     Cardinality(TreeAlphabet)) :
        \A i, j \in 1..Len(f) : i # j => f[i][1] # f[j][1] }

InitTree ==
    /\ txt = NoFile
    /\ bin = NoFile
    /\ out = NoFile
    /\ path = "txt"
    /\ heap = <<>>
    /\ code = EmptyTable
    /\ reversecode = EmptyTable
    /\ op = "init"
    /\ err = "none"
    /\ freq \in FreqTables
    /\ hist = InitHist(NoFile)
    /\ pack = NoPack

\* self.__build_heap(frequency_dict)
TreeBuildHeap ==
    /\ op = "init"
    /\ heap' = build_heap(freq)
    /\ op' = "build_heap"
    /\ UNCHANGED <<txt, bin, out, path, code, reversecode, err, freq, hist, pack>>

\* one iteration of the while loop of __build_binary_tree
TreeMerge ==
    /\ op \in {"build_heap", "merge"}
    /\ Len(heap) > 1
    /\ heap' = MergeOnce(heap)
    /\ op' = "merge"
    /\ hist' = [hist EXCEPT !.iters = @ + 1]
    /\ UNCHANGED <<txt, bin, out, path, code, reversecode, err, freq, pack>>

TreeCodeDone(t) ==
    /\ heap' = t.heap
    /\ code' = t.code
    /\ reversecode' = t.reversecode
    /\ err' = t.err

\* the loop left; self.__build_tree_code()
TreeCode ==
    /\ op \in {"build_heap", "merge"}
    /\ ~(Len(heap) > 1)
    /\ TreeCodeDone(build_tree_code(Self))
    /\ op' = "build_tree_code"
    /\ UNCHANGED <<txt, bin, out, path, freq, hist, pack>>

NextTree ==
    \/ TreeBuildHeap
    \/ TreeMerge
    \/ TreeCode

SpecTree == InitTree /\ [][NextTree]_vars

\* TreeMerge seen on its guard and its count of iterations
MergeIteration ==
    /\ op \in {"build_heap", "merge"}
    /\ Len(heap) > 1
    /\ hist' = [hist EXCEPT !.iters = @ + 1]

\* The while loop is sequential code: as long as its condition holds, its
\* next iteration runs.
SpecTreeFair == SpecTree /\ WF_hist(MergeIteration)

(***************************************************************************)
(* The bit packer step by step, on every encoded text up to MaxBits bits.  *)
(***************************************************************************)
InitPad ==
    /\ txt = NoFile
    /\ bin = NoFile
    /\ out = NoFile
    /\ path = "txt"
    /\ heap = <<>>
    /\ code = EmptyTable
    /\ reversecode = EmptyTable
    /\ op = "init"
    /\ err = "none"
    /\ freq = <<>>
    /\ hist = InitHist(NoFile)
    /\ pack \in {[stage |-> "encoded", encoded_text |-> e, padded_text |-> <<>>,
                  bytes |-> <<>>] : e \in SeqsUpTo(Bit, MaxBits)}

\* padded_text = self.__build_padded_text(encoded_text)
PadStep ==
    /\ pack.stage = "encoded"
    /\ pack' = [pack EXCEPT !.stage = "padded",
                            !.padded_text = build_padded_text(pack.encoded_text)]
    /\ UNCHANGED <<txt, bin, out, path, heap, code, reversecode, op, err, freq,
                   hist>>

\* self.__build_byte_array(padded_text)
PackStep ==
    /\ pack.stage = "padded"
    /\ pack' = [pack EXCEPT !.stage = "packed",
                            !.bytes = build_byte_array(pack.padded_text)]
    /\ UNCHANGED <<txt, bin, out, path, heap, code, reversecode, op, err, freq,
                   hist>>

NextPad ==
    \/ PadStep
    \/ PackStep

SpecPad == InitPad /\ [][NextPad]_vars

(***************************************************************************)
(* The container's delimiter: compress and decompress on every document up *)
(* to MaxLenDelim symbols and on one longer document, with newlines among  *)
(* its symbols, whose packed payload holds a byte equal to the delimiter.  *)
(***************************************************************************)
\* "\n\n\n\na\na\naaaaa": packed as the bytes 3, 10, 248
NewlinePayloadDoc ==
    <<Newline, Newline, Newline, Newline, 97, Newline, 97, Newline,
      97, 97, 97, 97, 97>>

DelimDocs == SeqsUpTo(Alphabet, MaxLenDelim) \cup {NewlinePayloadDoc}

InitDelim ==
    /\ txt \in {File(d) : d \in DelimDocs}
    /\ bin = NoFile
    /\ out = NoFile
    /\ InitInstance
    /\ hist = InitHist(txt)

NextDelim ==
    \/ \E p \in {"txt", "bin"} : NewInstance(p)
    \/ \E p \in {"txt", "bin"} : SetPath(p)
    \/ Compress(0)
    \/ Decompress(0)

SpecDelim == InitDelim /\ [][NextDelim]_vars

(***************************************************************************)
(* The pad removal of the three variants of the codec, on every unpacked   *)
(* bit string made of a header that encodes a pad count up to MaxPad and   *)
(* up to MaxPayload bits after it.                                         *)
(***************************************************************************)
Unpacked ==
    { Format08b(p) \o b : p \in 0..MaxPad, b \in SeqsUpTo(Bit, MaxPayload) }

InitUnpad ==
    /\ txt = NoFile
    /\ bin = NoFile
    /\ out = NoFile
    /\ path = "bin"
    /\ heap = <<>>
    /\ code = EmptyTable
    /\ reversecode = EmptyTable
    /\ op = "init"
    /\ err = "none"
    /\ freq = <<>>
    /\ hist = InitHist(NoFile)
    /\ pack \in {[stage |-> "unpacked", text |-> t, result |-> <<>>] :
                    t \in Unpacked}

\* the bit string handed to the remove-padding step of one variant
UnpadDone(variant, result) ==
    /\ pack.stage = "unpacked"
    /\ pack' = [pack EXCEPT !.stage = variant, !.result = result]
    /\ UNCHANGED <<txt, bin, out, path, heap, code, reversecode, op, err, freq,
                   hist>>

\* Huffman_Code_Final.py: self.__remove_padding(bit_string)
UnpadFinal == UnpadDone("Huffman_Code_Final", remove_padding(pack.text))

\* final_project.py: self.__remove_padding(bit_string)
UnpadProject ==
    UnpadDone("final_project", remove_padding_final_project(pack.text))

\* Huffman_Code.py: self.__Remove_Padding(bit_string)
UnpadOld == UnpadDone("Huffman_Code", Remove_Padding(pack.text))

NextUnpad ==
    \/ UnpadFinal
    \/ UnpadProject
    \/ UnpadOld

SpecUnpad == InitUnpad /\ [][NextUnpad]_vars

(***************************************************************************)
(* Properties.                                                             *)
(***************************************************************************)

\* C1: round trip.  Whenever a fresh instance has run decompress on the
\* artifact that compress produced from a document D, the call succeeded and
\* the output text equals D symbol for symbol (hist.src is the document as it
\* was on disk when compress read it).
C1_RoundTrip ==
    (op = "decompress" /\ hist.fresh /\ hist.src.exists)
        => (err = "none" /\ out = hist.src)

\* C2: corrupted artifact.  Whenever decompress has exhausted the unpacked bits
\* with a non-empty accumulation buffer (hist.rest; a buffer that matched a key
\* was reset, so what is left matches none), the call raised an error and did
\* not write the output file.
C2_UndecodableRaises ==
    (op = "decompress" /\ hist.rest # <<>>)
        => (err # "none" /\ ~hist.wrote)

\* C3: empty-input rejection.  Every compress step on a document that is empty,
\* or empty once its trailing whitespace is stripped, raises an error and leaves
\* the output path as it was: not created, not rewritten.
C3_EmptyInputRejected ==
    [][(op' = "compress" /\ rstrip(txt.data) = <<>>)
           => (err' # "none" /\ bin' = bin)]_vars

\* C3 witness: compress has just run on a non-empty document of whitespace
\* only, raised, and there is no artifact.
C3_Witness ==
    /\ op = "compress"
    /\ txt.data # <<>>
    /\ rstrip(txt.data) = <<>>
    /\ err = "ValueError: Input file is empty"
    /\ ~bin.exists

\* The tables a fresh instance generates from the frequency table f.
FreshTables(f) ==
    build_tree_code([heap |-> build_binary_tree(build_heap(f)),
                     code |-> EmptyTable, reversecode |-> EmptyTable])

\* C4: invocation isolation.  After every compress or decompress on the one
\* instance that built its tables, the Code Table and the Reverse Code Table
\* hold exactly the entries generated from that invocation's Frequency Table:
\* none survives from an earlier invocation.
C4_Isolation ==
    (op \in {"compress", "decompress"} /\ hist.built)
        => /\ code = FreshTables(freq).code
           /\ reversecode = FreshTables(freq).reversecode

IsPrefix(a, b) == Len(a) <= Len(b) /\ SubSeq(b, 1, Len(a)) = a

\* C5: prefix-free law.  For every non-empty Frequency Table, the Code Table
\* generated from its tree has one code per symbol of the table, every code is
\* a non-empty bit string, and no code is a proper prefix of another code.
C5_PrefixFree ==
    (op = "build_tree_code" /\ freq # <<>>)
        => /\ err = "none"
           /\ DOMAIN code = DictKeys(freq)
           /\ \A k \in DOMAIN code : code[k] # <<>> /\ code[k] \in Seq(Bit)
           /\ \A k, l \in DOMAIN code :
                 k # l => ~IsPrefix(code[k], code[l])

\* C5 witness: a table of four symbols, two of them tied, has been coded, and
\* its codes are not all of one length.
C5_Witness ==
    /\ op = "build_tree_code"
    /\ Len(freq) = 4
    /\ \E i, j \in 1..4 : i # j /\ freq[i][2] = freq[j][2]
    /\ \E k, l \in DOMAIN code : Len(code[k]) < Len(code[l])

\* C6: padding correctness.  With L the encoded bit length, the pad stored in
\* the first packed byte (the 8-bit header) is (8 - L mod 8) mod 8; the padded
\* text is the header, the encoded bits, then exactly pad zero bits; and
\* (L + pad) mod 8 = 0, so for L a multiple of 8 the pad is 0 and nothing is
\* appended.  The bytes hold the padded text, 8 bits each.
C6_Padding ==
    pack.stage = "packed" =>
        LET L == Len(pack.encoded_text)
            pad == pack.bytes[1]
        IN  /\ pad = (8 - (L % 8)) % 8
            /\ (L + pad) % 8 = 0
            /\ Len(pack.padded_text) = 8 + L + pad
            /\ SubSeq(pack.padded_text, 1, 8) = Format08b(pad)
            /\ SubSeq(pack.padded_text, 9, 8 + L) = pack.encoded_text
            /\ \A i \in (8 + L + 1)..Len(pack.padded_text) :
                   pack.padded_text[i] = 0
            /\ (L % 8 = 0 => (pad = 0 /\ Len(pack.padded_text) = 8 + L))
            /\ BitString(pack.bytes) = pack.padded_text

\* C6 witness: an encoded text of exactly 8 bits, not all zero, has been
\* packed.
C6_Witness ==
    /\ pack.stage = "packed"
    /\ Len(pack.encoded_text) = 8
    /\ \E i \in 1..8 : pack.encoded_text[i] = 1

\* a document of one symbol repeated
IsRun(d) == d # <<>> /\ \A i \in 1..Len(d) : d[i] = d[1]

SingleSymbolLaw(symbols) ==
    /\ (op = "compress" /\ hist.fresh /\ IsRun(txt.data)
            /\ txt.data[1] \in symbols)
        => /\ err = "none"
           /\ freq = << << <<txt.data[1]>>, Len(txt.data) >> >>
           /\ code = [k \in {<<txt.data[1]>>} |-> <<0>>]
    /\ (op = "decompress" /\ hist.fresh /\ hist.src.exists
            /\ IsRun(hist.src.data) /\ hist.src.data[1] \in symbols)
        => /\ err = "none"
           /\ out = hist.src

\* C7 as claimed: a document of one symbol (any symbol) repeated n >= 1 times
\* compresses, on a fresh instance, to the Frequency Table {symbol: n} and the
\* one-entry Code Table {symbol: "0"}, and a fresh instance decompresses the
\* artifact to the same document.
C7_SingleSymbol_AnySymbol == SingleSymbolLaw(Alphabet)

\* C7 amended: the same for a symbol that is not whitespace.
C7_SingleSymbol == SingleSymbolLaw(Alphabet \ Whitespace)

\* C7 witness: a fresh instance has decompressed the artifact of a document of
\* one non-whitespace symbol repeated at least three times.
C7_Witness ==
    /\ op = "decompress"
    /\ hist.fresh
    /\ hist.src.exists
    /\ IsRun(hist.src.data)
    /\ Len(hist.src.data) >= 3
    /\ out = hist.src
    /\ code = [k \in {<<hist.src.data[1]>>} |-> <<0>>]

\* C8: determinism.  Any two compress runs on the same document, whatever the
\* instance has run before, wrote byte-identical artifacts (hist.produced holds
\* <<document, artifact, index of the call>> for every artifact written).
C8_Deterministic ==
    \A p, q \in hist.produced : p[1] = q[1] => p[2] = q[2]

\* C8 witness: a document whose two symbols tie has been compressed twice, the
\* second time on an instance whose tables held another document's codes.
C8_Witness ==
    /\ op = "compress"
    /\ txt.data = <<97, 98>>
    /\ \E p, q \in hist.produced :
          /\ p[1] = txt.data /\ q[1] = txt.data
          /\ p[3] + 1 < q[3]
          /\ \E r \in hist.produced : r[1] = <<98, 97>> /\ p[3] < r[3] /\ r[3] < q[3]

\* a parsed header that is a Frequency Table: a non-empty mapping from
\* one-character symbols to positive counts
ValidTable(parsed) ==
    /\ parsed.kind = "dict"
    /\ parsed.val # <<>>
    /\ \A i \in 1..Len(parsed.val) :
          Len(parsed.val[i][1]) = 1 /\ parsed.val[i][2] > 0

\* C9: malformed metadata.  Whenever decompress has run on an artifact whose
\* bytes before the first newline are not a valid serialized Frequency Table,
\* it raised an error, and neither decoded the payload nor wrote the output.
C9_MalformedRejected ==
    (op = "decompress" /\ ~ValidTable(json_loads(ReadHeader(bin.data))))
        => (err # "none" /\ ~hist.wrote)

RECURSIVE SumOver(_, _)
SumOver(f, n) == IF n = 0 THEN 0 ELSE f[n] + SumOver(f, n - 1)

\* the weighted path length of the code lengths len (by position in freq)
Cost(len) == SumOver([i \in 1..Len(freq) |-> freq[i][2] * len[i]], Len(freq))

\* Kraft's inequality for lengths in 1..n, scaled by 2^n: the lengths are those
\* of some prefix-free binary code exactly if it holds
Kraft(len, n) == SumOver([i \in 1..n |-> Pow2(n - len[i])], n) <= Pow2(n)

\* C10: optimality.  For every Frequency Table of n >= 2 symbols, the sum of
\* frequency times code length in the generated Code Table is no larger than
\* that of any prefix-free binary code for the table (any assignment of code
\* lengths up to n that satisfies Kraft's inequality).
C10_Optimal ==
    (op = "build_tree_code" /\ Len(freq) >= 2)
        => \A len \in [1..Len(freq) -> 1..Len(freq)] :
              Kraft(len, Len(freq))
                  => Cost([i \in 1..Len(freq) |-> Len(code[freq[i][1]])])
                         <= Cost(len)

\* C10 witness: a table of four symbols with unequal counts has been coded
\* with codes of three different lengths.
C10_Witness ==
    /\ op = "build_tree_code"
    /\ Len(freq) = 4
    /\ \E i, j \in 1..4 : freq[i][2] < freq[j][2]
    /\ Cardinality({Len(code[k]) : k \in DOMAIN code}) = 3

\* the symbols of a text, as keys of the tables
SymbolsOf(text) == { <<text[i]>> : i \in 1..Len(text) }

\* C11: code reproduction on decode.  Whenever decompress has run on the
\* artifact compress wrote for a document, the code of every symbol of the
\* document in the rebuilt Code Table is the code compress used, and both
\* Reverse Code Tables map that code back to the symbol; and when each of the
\* two calls ran on an instance of its own, the rebuilt Code Table and Reverse
\* Code Table equal the tables of compress entry for entry (hist.enc holds the
\* tables compress encoded with).
C11_CodeReproduction ==
    (op = "decompress" /\ hist.src.exists)
        => /\ hist.built
           /\ \A k \in SymbolsOf(rstrip(hist.src.data)) :
                 /\ k \in DOMAIN code
                 /\ k \in DOMAIN hist.enc.code
                 /\ code[k] = hist.enc.code[k]
                 /\ reversecode[code[k]] = k
                 /\ hist.enc.reversecode[code[k]] = k
           /\ (hist.fresh /\ hist.encfresh)
                 => /\ code = hist.enc.code
                    /\ reversecode = hist.enc.reversecode

\* C11 witness: a fresh instance has decompressed the artifact a fresh
\* instance wrote for a document of three symbols, two of them tied on
\* frequency, and holds the three codes compress used.
C11_Witness ==
    /\ op = "decompress"
    /\ hist.fresh
    /\ hist.encfresh
    /\ hist.src.exists
    /\ Len(freq) = 3
    /\ \E i, j \in 1..Len(freq) : i # j /\ freq[i][2] = freq[j][2]
    /\ Cardinality(DOMAIN code) = 3
    /\ code = hist.enc.code
    /\ reversecode = hist.enc.reversecode

\* The pad removal law for the variants named: the result is the bits after
\* the 8-bit header without their last p bits, p being the number the header
\* encodes (for p no larger than the number of bits after the header).
PadRemovalLaw(variants) ==
    LET p == IntBase2(SubSeq(pack.text, 1, 8))
        payload == SubSeq(pack.text, 9, Len(pack.text))
    IN  (pack.stage \in variants /\ p <= Len(payload))
            => pack.result = SubSeq(payload, 1, Len(payload) - p)

\* C12: pad removal in every variant.  In Huffman_Code_Final, final_project
\* and Huffman_Code alike, the remove-padding step on a bit string of at least
\* 8 bits whose header encodes p returns the bits after the header with
\* exactly the last p bits removed; with p = 0 it returns the whole payload.
C12_PadRemoval ==
    PadRemovalLaw({"Huffman_Code_Final", "final_project", "Huffman_Code"})

\* The same law for the two variants that test the pad count for zero.
PadRemoval_ZeroTested == PadRemovalLaw({"Huffman_Code_Final", "final_project"})

\* The law for Huffman_Code on the headers its own compress writes (1..8).
PadRemoval_Old_NonZero ==
    IntBase2(SubSeq(pack.text, 1, 8)) # 0 => PadRemovalLaw({"Huffman_Code"})

\* The artifact data is header, delimiter, payload, and the header read and
\* the payload read of decompress take it apart at that delimiter.
SplitsAtDelimiter(data, header, payload) ==
    /\ \A i \in 1..Len(header) : header[i] # Newline
    /\ data = header \o <<Newline>> \o payload
    /\ FirstNewline(data, 1) = Len(header) + 1
    /\ ReadHeader(data) = header
    /\ ReadPayload(data) = payload

\* C13: delimiter integrity.  Whenever compress has written an artifact, the
\* serialized Frequency Table holds no newline byte, the first newline byte of
\* the artifact is the delimiter, and the header read and the payload read of
\* decompress return the serialized table and the packed bytes as compress
\* joined them; and whenever decompress has run on that artifact it succeeded,
\* parsed the Frequency Table of the document and left no bit undecoded.
C13_DelimiterIntegrity ==
    /\ (op = "compress" /\ hist.wrote)
          => SplitsAtDelimiter(bin.data, json_dumps(freq),
                 build_byte_array(build_padded_text(
                     build_encoded_text(rstrip(txt.data), code))))
    /\ (op = "decompress" /\ hist.src.exists)
          => /\ err = "none"
             /\ freq = frequency_from_text(rstrip(hist.src.data))
             /\ hist.rest = <<>>

\* C13 witness: decompress has returned the document from an artifact whose
\* document has a newline among its symbols and whose payload holds a
\* newline-valued byte.
C13_Witness ==
    /\ op = "decompress"
    /\ hist.src.exists
    /\ err = "none"
    /\ out = hist.src
    /\ \E i \in 1..Len(freq) : freq[i][1] = <<Newline>>
    /\ \E i \in 1..Len(ReadPayload(bin.data)) :
          ReadPayload(bin.data)[i] = Newline

\* the nodes in the queue
Nodes(h) == { h[i] : i \in 1..Len(h) }

\* the sum of the counts of the frequency table
TotalCount == SumOver([i \in 1..Len(freq) |-> freq[i][2]], Len(freq))

\* Between __build_heap and __build_tree_code the queue holds n minus the
\* iterations run so far, never fewer than one node; when one node is left
\* n - 1 iterations have run and its frequency is the sum of all counts; for
\* n = 1 no iteration runs and the node is the leaf of the one symbol.
MergeLoopCount ==
    /\ (op \in {"build_heap", "merge"} /\ Len(freq) >= 1)
          => /\ Len(heap) = Len(freq) - hist.iters
             /\ Len(heap) >= 1
             /\ Len(heap) = 1
                   => /\ hist.iters = Len(freq) - 1
                      /\ heap[1].frequency = TotalCount
             /\ Len(freq) = 1
                   => /\ hist.iters = 0
                      /\ heap[1] = BinaryTree(freq[1][1], freq[1][2])
    /\ (op = "build_tree_code" /\ Len(freq) >= 1)
          => /\ hist.iters = Len(freq) - 1
             /\ err = "none"

\* One iteration takes two nodes out of the queue, the first no more frequent
\* than the second and the second no more frequent than any node left, and
\* puts in one new node, without a symbol, whose left child is the first,
\* whose right child is the second and whose frequency is their sum.
MergeStep ==
    op' = "merge"
        => /\ Len(heap') = Len(heap) - 1
           /\ \E new_node \in Nodes(heap') \ Nodes(heap) :
                 /\ new_node.value = NoneValue
                 /\ Len(new_node.kids) = 2
                 /\ new_node.kids[1] \in Nodes(heap)
                 /\ new_node.kids[2] \in Nodes(heap)
                 /\ new_node.kids[1] # new_node.kids[2]
                 /\ new_node.kids[1] = HeapPop(heap).item
                 /\ new_node.kids[2] = HeapPop(HeapPop(heap).heap).item
                 /\ new_node.kids[1].frequency <= new_node.kids[2].frequency
                 /\ new_node.frequency
                       = new_node.kids[1].frequency + new_node.kids[2].frequency
                 /\ Nodes(heap') = (Nodes(heap) \ {new_node.kids[1],
                                                    new_node.kids[2]})
                                       \cup {new_node}
                 /\ \A x \in Nodes(heap') \ {new_node} :
                       new_node.kids[2].frequency <= x.frequency

\* C14: tree build termination.  For a Frequency Table of n >= 1 symbols the
\* merge loop, once entered, ends: it reaches a state with exactly one node
\* in the queue, after exactly n - 1 iterations; each iteration
\* makes the first popped node the left child and the second the right child
\* of a new node whose frequency is their sum, so the root's frequency is the
\* sum of all counts; for n = 1 the loop body never runs and the leaf is the
\* root.
C14_MergeLoopTerminates ==
    /\ []MergeLoopCount
    /\ [][MergeStep]_vars
    /\ (op = "build_heap" /\ Len(freq) >= 1)
          ~> (Len(heap) = 1 /\ hist.iters = Len(freq) - 1)

\* C14 witness: the loop has run its third iteration on a table of four
\* symbols with unequal counts and left one node, the root, whose children
\* are both internal nodes or leaves popped in order of frequency.
C14_Witness ==
    /\ op = "merge"
    /\ Len(freq) = 4
    /\ \E i, j \in 1..4 : freq[i][2] < freq[j][2]
    /\ hist.iters = 3
    /\ Len(heap) = 1
    /\ heap[1].frequency = TotalCount
    /\ heap[1].kids[1].frequency < heap[1].kids[2].frequency

====
